---- MODULE Spec2Model ----
(***************************************************************************)
(* Model of api/agent/drivers/docker/imageCache.go: the docker image cache *)
(* of the agent (type Cache, type Entry, type EntryByAge).                 *)
(*                                                                         *)
(* Every public method of Cache takes c.mu on entry and releases it by a   *)
(* deferred Unlock, so a call is one atomic step over the cache; callers   *)
(* running concurrently are the interleavings of these steps.              *)
(*                                                                         *)
(* Go values are modelled by what they are:                                *)
(*  - Entry.locked is a map, a reference: an Entry holds a reference into  *)
(*    maps, and a copy of the Entry shares the map;                        *)
(*  - the keys of Entry.locked are pointers to interface{}: a pin is the   *)
(*    address of a variable together with the token value stored there;    *)
(*  - time.Now() is the clock now, which never goes back and may advance   *)
(*    between any two readings.                                            *)
(***************************************************************************)
EXTENDS Integers, Sequences, FiniteSets, TLC

VARIABLES
    cache,      \* Cache.cache : EntryByAge, the backing slice
    maps,       \* the heap of Entry.locked maps: reference -> set of pins
    maxSize,    \* Cache.maxSize
    now,        \* the wall clock read by time.Now()
    limit,      \* the argument NewCache was called with
    ret,        \* the last call: its name, arguments and returned values
    mu,         \* Cache.mu: the caller that holds it, or Free
    pc,         \* where each caller is in the method it runs
    call,       \* the method each caller runs, with its local variables
    gone,       \* history: the tokens pinned on the entry of an identity
                \* when Remove last took it out
    at          \* history: the index in the slice where the call just made
                \* found the entry it took out, 0 if it took none out

vars == <<cache, maps, maxSize, now, limit, ret, mu, pc, call, gone, at>>

\* what the calls taken one at a time leave alone
aux == <<mu, pc, call, gone, at>>

\* ------------------------------------------------------------------ bounds
MaxTime == 1        \* the clock runs from 0 to MaxTime
MaxUses == 2        \* Entry.uses is driven up to MaxUses
MaxPins == 1        \* at most MaxPins pins are live at a time
MapsPerId == 2      \* maps that can be live at a time for one identity

\* ------------------------------------------------------------------ inputs
\* d.APIImages values handed to Add, Contains and Remove (ID and Size only).
Images == { [ID |-> "a", Size |-> 5],
            [ID |-> "b", Size |-> 6] }

Ids == { v.ID : v \in Images }

\* the same with a third image, for a slice with a middle position
WideImages == Images \cup { [ID |-> "c", Size |-> 7] }

WideIds == { v.ID : v \in WideImages }

\* the goroutines that call into the cache
Callers == { "g1", "g2" }

\* token values given to Lock and Unlock
Tokens == { "tok1", "tok2" }

\* capacities given to NewCache
Limits == { 0, 10 }

\* references of Entry.locked maps: the k-th map made for an identity
MapRefs == WideIds \X (1 .. MapsPerId)

\* addresses of the variables whose address is taken (&key)
Addrs == 1 .. (MaxPins + 1)

\* ------------------------------------------------------------- the heap
\* the maps a slice of entries refers to
UsedRefs(c) == { c[i].locked : i \in DOMAIN c }

\* the pins reachable from a slice of entries
LivePins(c, m) == UNION { m[r] : r \in UsedRefs(c) }

LiveAddrs(c, m) == { p.addr : p \in LivePins(c, m) }

Least(S) == CHOOSE x \in S : \A y \in S : x <= y

\* make(map[...]...) in NewEntry(value) with value.ID = ID: a map no live
\* entry refers to. References are only compared for equality, so the first
\* free one of the identity stands for any free one.
NewMap(c, ID) ==
    << ID, Least({ k \in 1 .. MapsPerId : << ID, k >> \notin UsedRefs(c) }) >>

\* &key: the address of the parameter of the running call, a variable that
\* did not exist before the call, so an address no stored pin has.
AddrOfKey(c, m) == Least(Addrs \ LiveAddrs(c, m))

\* A map no entry refers to any more cannot be observed: it is collected.
Collect(c, m) == [ r \in MapRefs |-> IF r \in UsedRefs(c) THEN m[r] ELSE {} ]

\* ------------------------------------------------------------ Entry
\* func NewEntry(value d.APIImages) Entry, with the clock reading t and the
\* fresh map r
NewEntry(value, t, r) ==
    [ lastUsed |-> t, locked |-> r, uses |-> 0, image |-> value ]

\* func (e Entry) Score() int64, with the clock reading t.
\* Only defined for e.uses # 0: the integer division panics otherwise.
Score(e, t) == (t - e.lastUsed) \div e.uses

\* func (a EntryByAge) Swap(i, j int)
Swap(a, i, j) == [ a EXCEPT ![i] = a[j], ![j] = a[i] ]

\* ------------------------------------------------------------ Cache
\* func NewCache(maxSize int64) *Cache: the literal sets cache and mu only,
\* the field maxSize keeps its zero value.
NewCache(m) == [ cache |-> << >>, maxSize |-> 0 ]

\* the indexes of the entries of c with identity ID
Matches(c, ID) == { idx \in DOMAIN c : c[idx].image.ID = ID }

\* func (c *Cache) contains(value d.APIImages) bool
contains(c, value) == \E idx \in DOMAIN c : c[idx].image.ID = value.ID

\* mark with a slip: the time of last use is set, the use is not counted
mark_noCount(c, ID, t) ==
    IF Matches(c, ID) # {}
    THEN LET idx == Least(Matches(c, ID))
         IN  [ cache |-> [ c EXCEPT ![idx].lastUsed = t ], err |-> FALSE ]
    ELSE [ cache |-> c, err |-> TRUE ]

\* func (c *Cache) mark(ID string) error, with the clock reading t
mark(c, ID, t) ==
    IF Matches(c, ID) # {}
    THEN LET idx == Least(Matches(c, ID))
         IN  [ cache |-> [ c EXCEPT ![idx].lastUsed = t,
                                    ![idx].uses = c[idx].uses + 1 ],
               err   |-> FALSE ]
    ELSE [ cache |-> c, err |-> TRUE ]

\* remove with a slip: the last entry is dropped without having been moved
\* to the place of the entry found
remove_noSwap(c, value) ==
    IF Matches(c, value.ID) # {}
    THEN [ cache |-> SubSeq(c, 1, Len(c) - 1), err |-> FALSE ]
    ELSE [ cache |-> c, err |-> TRUE ]

\* remove with a slip: an identity that is not found takes the last entry
remove_dropLast(c, value) ==
    IF Matches(c, value.ID) # {}
    THEN LET idx == Least(Matches(c, value.ID))
         IN  [ cache |-> SubSeq([ c EXCEPT ![idx] = c[Len(c)] ], 1, Len(c) - 1),
               err   |-> FALSE ]
    ELSE [ cache |-> SubSeq(c, 1, Len(c) - 1), err |-> TRUE ]

\* the loop of func (c *Cache) Remove(value d.APIImages) error
remove(c, value) ==
    IF Matches(c, value.ID) # {}
    THEN LET idx == Least(Matches(c, value.ID))
         IN  [ cache |-> SubSeq([ c EXCEPT ![idx] = c[Len(c)] ], 1, Len(c) - 1),
               err   |-> FALSE ]
    ELSE [ cache |-> c, err |-> TRUE ]

\* lock with a slip: an identity that is not found is not reported
lock_noError(c, m, ID, key, p) ==
    IF Matches(c, ID) # {}
    THEN LET i == c[Least(Matches(c, ID))]
         IN  [ maps |-> [ m EXCEPT ![i.locked] =
                              { q \in @ : q.addr # p } \cup { [addr |-> p, val |-> key] } ],
               err  |-> FALSE ]
    ELSE [ maps |-> m, err |-> FALSE ]

\* func (c *Cache) lock(ID string, key interface{}) error; p is &key.
\* The range variable i is a copy of the entry, i.locked is the entry's map.
lock(c, m, ID, key, p) ==
    IF Matches(c, ID) # {}
    THEN LET i == c[Least(Matches(c, ID))]
         IN  [ maps |-> [ m EXCEPT ![i.locked] =
                              { q \in @ : q.addr # p } \cup { [addr |-> p, val |-> key] } ],
               err  |-> FALSE ]
    ELSE [ maps |-> m, err |-> TRUE ]

\* func (c *Cache) locked(ID string) (bool, error)
locked(c, m, ID) ==
    IF Matches(c, ID) # {}
    THEN LET i == c[Least(Matches(c, ID))]
         IN  [ val |-> Cardinality(m[i.locked]) > 0, err |-> FALSE ]
    ELSE [ val |-> FALSE, err |-> TRUE ]

\* func (c *Cache) unlock(ID string, key interface{}); p is &key.
\* delete(i.locked, &key) removes the pin whose address is p.
unlock(c, m, ID, key, p) ==
    [ r \in MapRefs |->
        IF \E idx \in Matches(c, ID) : c[idx].locked = r
        THEN { q \in m[r] : q.addr # p }
        ELSE m[r] ]

\* func (c *Cache) TotalSize() int64
TotalSize(c) == 0

\* the filter loop with a slip: the test of len(i.locked) is left out
unlockedEntries_noFilter(c, m) == c

\* the filter loop with a slip: the test of len(i.locked) is turned round
RECURSIVE unlockedEntries_pinned(_, _)
unlockedEntries_pinned(c, m) ==
    IF c = << >> THEN << >>
    ELSE LET i == Head(c)
         IN  IF Cardinality(m[i.locked]) # 0
             THEN << i >> \o unlockedEntries_pinned(Tail(c), m)
             ELSE unlockedEntries_pinned(Tail(c), m)

\* the filter loop of func (c *Cache) evictable() (ea EntryByAge)
RECURSIVE unlockedEntries(_, _)
unlockedEntries(c, m) ==
    IF c = << >> THEN << >>
    ELSE LET i == Head(c)
         IN  IF Cardinality(m[i.locked]) = 0
             THEN << i >> \o unlockedEntries(Tail(c), m)
             ELSE unlockedEntries(Tail(c), m)

\* ------------------------------------------------------------ sort.Sort
\* What one call of Less, or the whole sort, can come to: the slice, the
\* clock when it ended, and whether it panicked.
Outcome(a, t, less, panic) == [ ea |-> a, t |-> t, less |-> less, panic |-> panic ]

\* func (a EntryByAge) Less(i, j int) bool, entered with the clock at t.
\* a[i].Score() is evaluated first and reads the clock at t1, a[j].Score()
\* second and reads it at t2 >= t1; a Score() of an entry with uses = 0
\* divides by zero, a run-time panic.
Less(a, i, j, t) ==
    { IF a[i].uses = 0 THEN Outcome(a, tt[1], FALSE, TRUE)
      ELSE IF a[j].uses = 0 THEN Outcome(a, tt[2], FALSE, TRUE)
      ELSE Outcome(a, tt[2], Score(a[i], tt[1]) < Score(a[j], tt[2]), FALSE) :
      tt \in { x \in (t .. MaxTime) \X (t .. MaxTime) : x[1] <= x[2] } }

\* insertionSort of package sort, which is the whole of sort.Sort for a
\* slice of at most 6 elements:
\*   for i := a + 1; i < b; i++ {
\*       for j := i; j > a && data.Less(j, j-1); j-- { data.Swap(j, j-1) } }
\* Indexes are 1-based here; (i, j) is the position in the two loops.
RECURSIVE insertionSort(_, _, _, _)
insertionSort(a, i, j, t) ==
    IF i > Len(a) THEN { Outcome(a, t, FALSE, FALSE) }
    ELSE IF j <= 1 THEN insertionSort(a, i + 1, i + 1, t)
    ELSE UNION { IF o.panic THEN { Outcome(a, o.t, FALSE, TRUE) }
                 ELSE IF o.less THEN insertionSort(Swap(a, j, j - 1), i, j - 1, o.t)
                 ELSE insertionSort(a, i + 1, i + 1, o.t) :
                 o \in Less(a, j, j - 1, t) }

\* func (c *Cache) evictable() (ea EntryByAge), entered with the clock at t:
\* the outcomes of the filter loop followed by sort.Sort(ea)
evictable(c, m, t) == insertionSort(unlockedEntries(c, m), 2, 2, t)

\* ------------------------------------------------------------ calls
NoId  == "-"
NoTok == "-"
Free  == "-"

\* the record of a call: op(id, tok) returned (b, n, ea, err) or panicked
Ret(op, id, tok, err, b, n, ea, panic) ==
    [ op |-> op, id |-> id, tok |-> tok, err |-> err,
      b |-> b, n |-> n, ea |-> ea, panic |-> panic ]

\* a caller that runs no method of the cache
NoCall == [ op |-> "-", value |-> [ID |-> NoId, Size |-> 0],
            found |-> FALSE, err |-> FALSE ]

\* the state after NewCache(m)
Init ==
    /\ limit \in Limits
    /\ cache = NewCache(limit).cache
    /\ maxSize = NewCache(limit).maxSize
    /\ maps = [ r \in MapRefs |-> {} ]
    /\ now = 0
    /\ ret = Ret("NewCache", NoId, NoTok, FALSE, FALSE, 0, << >>, FALSE)
    /\ mu = Free
    /\ pc = [ p \in Callers |-> "idle" ]
    /\ call = [ p \in Callers |-> NoCall ]
    /\ gone = [ ID \in WideIds |-> {} ]
    /\ at = 0

\* time passes between two calls
Tick ==
    /\ now < MaxTime
    /\ now' = now + 1
    /\ ret' = Ret("Tick", NoId, NoTok, FALSE, FALSE, 0, << >>, FALSE)
    /\ UNCHANGED <<cache, maps, maxSize, limit>>

\* func (c *Cache) Contains(value d.APIImages) bool
Contains(value) ==
    /\ ret' = Ret("Contains", value.ID, NoTok, FALSE, contains(cache, value), 0, << >>, FALSE)
    /\ UNCHANGED <<cache, maps, maxSize, now, limit>>

\* func (c *Cache) Mark(ID string) error
Mark(ID) ==
    /\ \A idx \in Matches(cache, ID) : cache[idx].uses < MaxUses
    /\ LET r == mark(cache, ID, now)
       IN  /\ cache' = r.cache
           /\ ret' = Ret("Mark", ID, NoTok, r.err, FALSE, 0, << >>, FALSE)
    /\ UNCHANGED <<maps, maxSize, now, limit>>

\* Remove with a pin check the code does not make: a pinned entry stays
Remove_refusePinned(value) ==
    /\ LET r == IF \E idx \in Matches(cache, value.ID) : maps[cache[idx].locked] # {}
                THEN [ cache |-> cache, err |-> TRUE ]
                ELSE remove(cache, value)
       IN  /\ cache' = r.cache
           /\ maps' = Collect(r.cache, maps)
           /\ ret' = Ret("Remove", value.ID, NoTok, r.err, FALSE, 0, << >>, FALSE)
    /\ UNCHANGED <<maxSize, now, limit>>

\* func (c *Cache) Remove(value d.APIImages) error
Remove(value) ==
    /\ LET r == remove(cache, value)
       IN  /\ cache' = r.cache
           /\ maps' = Collect(r.cache, maps)
           /\ ret' = Ret("Remove", value.ID, NoTok, r.err, FALSE, 0, << >>, FALSE)
    /\ UNCHANGED <<maxSize, now, limit>>

\* func (c *Cache) Lock(ID string, key interface{}) error
Lock(ID, key) ==
    /\ Matches(cache, ID) # {} => Cardinality(LivePins(cache, maps)) < MaxPins
    /\ LET r == lock(cache, maps, ID, key, AddrOfKey(cache, maps))
       IN  /\ maps' = r.maps
           /\ ret' = Ret("Lock", ID, key, r.err, FALSE, 0, << >>, FALSE)
    /\ UNCHANGED <<cache, maxSize, now, limit>>

\* func (c *Cache) Locked(ID string) (bool, error)
Locked(ID) ==
    /\ LET r == locked(cache, maps, ID)
       IN  ret' = Ret("Locked", ID, NoTok, r.err, r.val, 0, << >>, FALSE)
    /\ UNCHANGED <<cache, maps, maxSize, now, limit>>

\* func (c *Cache) Unlock(ID string, key interface{})
Unlock(ID, key) ==
    /\ maps' = unlock(cache, maps, ID, key, AddrOfKey(cache, maps))
    /\ ret' = Ret("Unlock", ID, key, FALSE, FALSE, 0, << >>, FALSE)
    /\ UNCHANGED <<cache, maxSize, now, limit>>

\* Add with a slip: an identity that is already there is not marked
add_noMark(c, m, value, t) ==
    IF contains(c, value)
    THEN [ cache |-> c, maps |-> m ]
    ELSE [ cache |-> Append(c, NewEntry(value, t, NewMap(c, value.ID))),
           maps  |-> [ m EXCEPT ![NewMap(c, value.ID)] = {} ] ]

\* the body of func (c *Cache) Add(value d.APIImages), with the clock
\* reading t; the error of mark is dropped
add(c, m, value, t) ==
    IF contains(c, value)
    THEN [ cache |-> mark(c, value.ID, t).cache, maps |-> m ]
    ELSE [ cache |-> Append(c, NewEntry(value, t, NewMap(c, value.ID))),
           maps  |-> [ m EXCEPT ![NewMap(c, value.ID)] = {} ] ]

\* func (c *Cache) Add(value d.APIImages)
Add(value) ==
    /\ \A idx \in Matches(cache, value.ID) : cache[idx].uses < MaxUses
    /\ LET r == add(cache, maps, value, now)
       IN  /\ cache' = r.cache
           /\ maps' = r.maps
    /\ ret' = Ret("Add", value.ID, NoTok, FALSE, FALSE, 0, << >>, FALSE)
    /\ UNCHANGED <<maxSize, now, limit>>

\* func (c *Cache) OverFilled() bool
OverFilled ==
    /\ ret' = Ret("OverFilled", NoId, NoTok, FALSE, TotalSize(cache) > maxSize, 0, << >>, FALSE)
    /\ UNCHANGED <<cache, maps, maxSize, now, limit>>

\* func (c *Cache) Evictable() EntryByAge. A panic of the sort leaves
\* through the deferred c.mu.Unlock() and returns nothing.
Evictable ==
    /\ \E o \in evictable(cache, maps, now) :
          /\ now' = o.t
          /\ ret' = Ret("Evictable", NoId, NoTok, FALSE, FALSE, 0,
                        IF o.panic THEN << >> ELSE o.ea, o.panic)
    /\ UNCHANGED <<cache, maps, maxSize, limit>>

\* func (c *Cache) Len() int
CacheLen ==
    /\ ret' = Ret("Len", NoId, NoTok, FALSE, FALSE, Len(cache), << >>, FALSE)
    /\ UNCHANGED <<cache, maps, maxSize, now, limit>>

\* the calls of callers that run one after the other
Next ==
    \/ Tick /\ UNCHANGED aux
    \/ \E value \in Images : Contains(value) /\ UNCHANGED aux
    \/ \E ID \in Ids : Mark(ID) /\ UNCHANGED aux
    \/ \E value \in Images : Remove(value) /\ UNCHANGED aux
    \/ \E ID \in Ids, key \in Tokens : Lock(ID, key) /\ UNCHANGED aux
    \/ \E ID \in Ids : Locked(ID) /\ UNCHANGED aux
    \/ \E ID \in Ids, key \in Tokens : Unlock(ID, key) /\ UNCHANGED aux
    \/ \E value \in Images : Add(value) /\ UNCHANGED aux
    \/ OverFilled /\ UNCHANGED aux
    \/ Evictable /\ UNCHANGED aux
    \/ CacheLen /\ UNCHANGED aux

Spec == Init /\ [][Next]_vars

\* ------------------------------------------------------------ readings
\* the identities of the entries of a slice
IdSet(c) == { c[i].image.ID : i \in DOMAIN c }

\* the entry of identity ID, for ID in IdSet(c)
EntryOf(c, ID) == c[Least(Matches(c, ID))]

\* the pin-set of the entry of identity ID and the token values in it
PinSet(c, m, ID) == m[EntryOf(c, ID).locked]
PinTokens(c, m, ID) == { p.val : p \in PinSet(c, m, ID) }

\* the sum of the sizes the descriptors of the entries report
RECURSIVE SumSizes(_)
SumSizes(c) == IF c = << >> THEN 0 ELSE Head(c).image.Size + SumSizes(Tail(c))

Reverse(s) == [ i \in 1 .. Len(s) |-> s[Len(s) + 1 - i] ]

TypeOK ==
    /\ cache \in Seq([ lastUsed : 0 .. MaxTime, locked : MapRefs,
                       uses : 0 .. MaxUses, image : WideImages ])
    /\ Len(cache) <= Cardinality(WideIds)
    /\ maps \in [ MapRefs -> SUBSET [ addr : Addrs, val : Tokens ] ]
    /\ maxSize \in Int
    /\ now \in 0 .. MaxTime
    /\ limit \in Limits
    /\ \A i \in DOMAIN cache : cache[i].lastUsed <= now

    /\ mu \in Callers \cup { Free }
    /\ pc \in [ Callers -> { "idle", "lock", "body", "add2", "unlock" } ]
    /\ gone \in [ WideIds -> SUBSET Tokens ]
    /\ at \in 0 .. Cardinality(WideIds)

\* ------------------------------------------------- calls, with history
\* Remove(value), remembering in gone the tokens that were pinned on the
\* entry it takes out
RemoveGone(value) ==
    /\ Remove(value)
    /\ gone' = [ gone EXCEPT ![value.ID] =
                    IF value.ID \in IdSet(cache)
                    THEN PinTokens(cache, maps, value.ID) ELSE @ ]
    /\ UNCHANGED <<mu, pc, call, at>>

\* The calls that make, mark, pin and take out entries, Remove keeping the
\* history. The clock stands still here: what reads it is followed in Spec.
NextGone ==
    \/ \E ID \in Ids : Mark(ID) /\ UNCHANGED aux
    \/ \E value \in Images : RemoveGone(value)
    \/ \E ID \in Ids, key \in Tokens : Lock(ID, key) /\ UNCHANGED aux
    \/ \E ID \in Ids : Locked(ID) /\ UNCHANGED aux
    \/ \E ID \in Ids, key \in Tokens : Unlock(ID, key) /\ UNCHANGED aux
    \/ \E value \in Images : Add(value) /\ UNCHANGED aux

SpecGone == Init /\ [][NextGone]_vars

\* ------------------------------------- calls on three identities, with
\* the place of the removal
\* Remove(value), remembering in at the index idx of the entry it takes out
RemoveAt(value) ==
    /\ Remove(value)
    /\ at' = IF Matches(cache, value.ID) # {}
             THEN Least(Matches(cache, value.ID)) ELSE 0
    /\ UNCHANGED <<mu, pc, call, gone>>

\* a call that is not a Remove takes no entry out
NoRemoval == at' = 0 /\ UNCHANGED <<mu, pc, call, gone>>

\* The calls that write the slice or an entry, on the three identities of
\* WideImages, so that the slice has a first, a middle and a last entry.
\* The clock stands still here, as in NextGone.
NextWide ==
    \/ \E ID \in WideIds : Mark(ID) /\ NoRemoval
    \/ \E value \in WideImages : RemoveAt(value)
    \/ \E ID \in WideIds, key \in Tokens : Lock(ID, key) /\ NoRemoval
    \/ \E value \in WideImages : Add(value) /\ NoRemoval

SpecWide == Init /\ [][NextWide]_vars

\* ------------------------------------------- the calls, step by step
\* Callers run the methods at the same time. A method is followed through
\* c.mu.Lock(), its body and the deferred c.mu.Unlock(); Add is followed
\* through its test of contains and the write after it. The clock stands
\* still here, and the values returned are not kept, except the error.

\* the exported methods of Cache
Public == { "Contains", "Mark", "Remove", "Lock", "Locked", "Unlock", "Add",
            "TotalSize", "OverFilled", "Evictable", "Len" }

\* every method, with a slip: TotalSize takes the mutex as well
Locks_all(f) == f \in Public

\* Add with a slip: it does not take the mutex
Locks_notAdd(f) ==
    f \in { "Contains", "Mark", "Remove", "Lock", "Locked", "Unlock",
            "OverFilled", "Evictable", "Len" }

\* the functions whose first statements are c.mu.Lock(); defer c.mu.Unlock()
Locks(f) ==
    f \in { "Contains", "Mark", "Remove", "Lock", "Locked", "Unlock", "Add",
            "OverFilled", "Evictable", "Len" }

\* the functions of this file a method calls between Lock and Unlock
Callees(op) ==
    CASE op = "Contains"   -> { "contains" }
      [] op = "Mark"       -> { "mark" }
      [] op = "Lock"       -> { "lock" }
      [] op = "Locked"     -> { "locked" }
      [] op = "Unlock"     -> { "unlock" }
      [] op = "Add"        -> { "contains", "mark", "NewEntry" }
      [] op = "OverFilled" -> { "TotalSize" }
      [] op = "Evictable"  -> { "evictable" }
      [] OTHER             -> {}

\* the callers that are in one of the methods ops
Pending(ops) ==
    Cardinality({ q \in Callers : pc[q] # "idle" /\ call[q].op \in ops })

\* p calls the method op. The calls that count a use or make a pin are
\* started only while the counts stay within MaxUses and MaxPins.
Begin(p, op, value) ==
    /\ pc[p] = "idle"
    /\ op \in { "Mark", "Add" } =>
          \A i \in DOMAIN cache :
             cache[i].uses + Pending({ "Mark", "Add" }) < MaxUses
    /\ op = "Lock" =>
          Cardinality(LivePins(cache, maps)) + Pending({ "Lock" }) < MaxPins
    /\ pc' = [ pc EXCEPT ![p] = IF Locks(op) THEN "lock" ELSE "body" ]
    /\ call' = [ call EXCEPT ![p] = [ NoCall EXCEPT !.op = op, !.value = value ] ]
    /\ UNCHANGED <<cache, maps, maxSize, now, limit, ret, mu, gone, at>>

\* c.mu.Lock(): p waits until the mutex is free and takes it
MuLock(p) ==
    /\ pc[p] = "lock"
    /\ mu = Free
    /\ mu' = p
    /\ pc' = [ pc EXCEPT ![p] = "body" ]
    /\ UNCHANGED <<cache, maps, maxSize, now, limit, ret, call, gone, at>>

\* p is at the body of op. sync.Mutex is not reentrant: a callee that takes
\* the mutex waits until it is free.
InBody(p, op) ==
    /\ pc[p] = "body"
    /\ call[p].op = op
    /\ \A f \in Callees(op) : Locks(f) => mu = Free

\* the body of p's method is done, with or without an error or a panic:
\* what is left is the deferred c.mu.Unlock(), if the method took the mutex
Return(p, err) ==
    /\ pc' = [ pc EXCEPT ![p] = IF Locks(call[p].op) THEN "unlock" ELSE "idle" ]
    /\ call' = [ call EXCEPT ![p] = IF Locks(call[p].op)
                                    THEN [ @ EXCEPT !.err = err ] ELSE NoCall ]
    /\ UNCHANGED <<maxSize, now, limit, ret, mu, gone, at>>

\* return c.contains(value)
DoContains(p) ==
    /\ InBody(p, "Contains")
    /\ Return(p, FALSE)
    /\ UNCHANGED <<cache, maps>>

\* return c.mark(ID)
DoMark(p) ==
    /\ InBody(p, "Mark")
    /\ \E ID \in Ids :
          /\ cache' = mark(cache, ID, now).cache
          /\ Return(p, mark(cache, ID, now).err)
    /\ UNCHANGED maps

\* the loop of Remove
DoRemove(p) ==
    /\ InBody(p, "Remove")
    /\ \E value \in Images :
          /\ cache' = remove(cache, value).cache
          /\ maps' = Collect(remove(cache, value).cache, maps)
          /\ Return(p, remove(cache, value).err)

\* return c.lock(ID, key)
DoLock(p) ==
    /\ InBody(p, "Lock")
    /\ \E ID \in Ids, key \in Tokens :
          LET r == lock(cache, maps, ID, key, AddrOfKey(cache, maps))
          IN  /\ maps' = r.maps
              /\ Return(p, r.err)
    /\ UNCHANGED cache

\* return c.locked(ID)
DoLocked(p) ==
    /\ InBody(p, "Locked")
    /\ \E ID \in Ids : Return(p, locked(cache, maps, ID).err)
    /\ UNCHANGED <<cache, maps>>

\* c.unlock(ID, key)
DoUnlock(p) ==
    /\ InBody(p, "Unlock")
    /\ \E ID \in Ids, key \in Tokens :
          maps' = unlock(cache, maps, ID, key, AddrOfKey(cache, maps))
    /\ Return(p, FALSE)
    /\ UNCHANGED cache

\* if c.contains(value): the test of Add
DoAddContains(p) ==
    /\ InBody(p, "Add")
    /\ pc' = [ pc EXCEPT ![p] = "add2" ]
    /\ call' = [ call EXCEPT ![p].found = contains(cache, call[p].value) ]
    /\ UNCHANGED <<cache, maps, maxSize, now, limit, ret, mu, gone, at>>

\* c.mark(value.ID); return, or c.cache = append(c.cache, NewEntry(value)),
\* after the test of Add
DoAddWrite(p) ==
    /\ pc[p] = "add2"
    /\ LET value == call[p].value
       IN  IF call[p].found
           THEN /\ cache' = mark(cache, value.ID, now).cache
                /\ maps' = maps
           ELSE /\ cache' = Append(cache, NewEntry(value, now, NewMap(cache, value.ID)))
                /\ maps' = [ maps EXCEPT ![NewMap(cache, value.ID)] = {} ]
    /\ Return(p, FALSE)

\* func (c *Cache) TotalSize() int64: return 0, with no use of c.mu
DoTotalSize(p) ==
    /\ InBody(p, "TotalSize")
    /\ Return(p, FALSE)
    /\ UNCHANGED <<cache, maps>>

\* return c.TotalSize() > c.maxSize
DoOverFilled(p) ==
    /\ InBody(p, "OverFilled")
    /\ Return(p, FALSE)
    /\ UNCHANGED <<cache, maps>>

\* return c.evictable(), which returns or panics
DoEvictable(p) ==
    /\ InBody(p, "Evictable")
    /\ \E o \in evictable(cache, maps, now) :
          /\ o.t = now
          /\ Return(p, o.panic)
    /\ UNCHANGED <<cache, maps>>

\* return len(c.cache)
DoLen(p) ==
    /\ InBody(p, "Len")
    /\ Return(p, FALSE)
    /\ UNCHANGED <<cache, maps>>

\* defer c.mu.Unlock(): it runs when the method returns and when it panics
MuUnlock(p) ==
    /\ pc[p] = "unlock"
    /\ mu' = Free
    /\ pc' = [ pc EXCEPT ![p] = "idle" ]
    /\ call' = [ call EXCEPT ![p] = NoCall ]
    /\ UNCHANGED <<cache, maps, maxSize, now, limit, ret, gone, at>>

\* what p does once it has called a method
Step(p) ==
    \/ MuLock(p)
    \/ DoContains(p) \/ DoMark(p) \/ DoRemove(p) \/ DoLock(p) \/ DoLocked(p)
    \/ DoUnlock(p) \/ DoAddContains(p) \/ DoAddWrite(p) \/ DoTotalSize(p)
    \/ DoOverFilled(p) \/ DoEvictable(p) \/ DoLen(p)
    \/ MuUnlock(p)

NextMu ==
    \/ \E p \in Callers, op \in Public \ { "Add" } : Begin(p, op, NoCall.value)
    \/ \E p \in Callers, value \in Images : Begin(p, "Add", value)
    \/ \E p \in Callers : MuLock(p)
    \/ \E p \in Callers : DoContains(p)
    \/ \E p \in Callers : DoMark(p)
    \/ \E p \in Callers : DoRemove(p)
    \/ \E p \in Callers : DoLock(p)
    \/ \E p \in Callers : DoLocked(p)
    \/ \E p \in Callers : DoUnlock(p)
    \/ \E p \in Callers : DoAddContains(p)
    \/ \E p \in Callers : DoAddWrite(p)
    \/ \E p \in Callers : DoTotalSize(p)
    \/ \E p \in Callers : DoOverFilled(p)
    \/ \E p \in Callers : DoEvictable(p)
    \/ \E p \in Callers : DoLen(p)
    \/ \E p \in Callers : MuUnlock(p)

SpecMu == Init /\ [][NextMu]_vars

\* Scheduling: a caller that has called a method keeps running, and
\* sync.Mutex hands the mutex to a waiter that has waited long (starvation
\* mode), so a caller that finds the mutex free again and again gets it.
FairSpecMu ==
    /\ SpecMu
    /\ \A p \in Callers : WF_vars(Step(p)) /\ SF_vars(MuLock(p))

\* ------------------------------------------------------------ claims

\* C1: for an entry whose pin-set is empty and any token t, after a
\* successful Lock(id, t) Locked(id) is true, and after the matching
\* Unlock(id, t), given the same token value, Locked(id) is false. Stated on
\* the steps: a Lock that succeeds leaves the entry locked, and an Unlock(id, t)
\* taken when the pin-set holds the one pin made by Lock(id, t) leaves it
\* not locked.
C1_LockUnlockRoundTrip ==
    [][ /\ (ret'.op = "Lock" /\ ~ret'.err) => locked(cache', maps', ret'.id).val
        /\ ( /\ ret'.op = "Unlock"
             /\ ret'.id \in IdSet(cache)
             /\ Cardinality(PinSet(cache, maps, ret'.id)) = 1
             /\ PinTokens(cache, maps, ret'.id) = { ret'.tok } )
           => ~locked(cache', maps', ret'.id).val ]_vars

\* C2: the pin-set of an entry is the set of tokens locked and not yet
\* unlocked, whatever the interleaving of the callers: every Lock(id, t) on a
\* present identity adds t to the tokens of the pin-set and nothing else,
\* every Unlock(id, t) takes t out of them and nothing else.
C2_PinSetIsLockedNotUnlocked ==
    [][ /\ (ret'.op = "Lock" /\ ret'.id \in IdSet(cache))
           => PinTokens(cache', maps', ret'.id)
                = PinTokens(cache, maps, ret'.id) \cup { ret'.tok }
        /\ (ret'.op = "Unlock" /\ ret'.id \in IdSet(cache))
           => PinTokens(cache', maps', ret'.id)
                = PinTokens(cache, maps, ret'.id) \ { ret'.tok } ]_vars

\* C3: no entry whose pin-set is non-empty when Evictable() runs is in the
\* sequence it returns. (Evictable leaves cache and maps as they are, so the
\* pin-sets in the state it returns in are those it ran on.)
C3_PinnedNeverEvictable ==
    ret.op = "Evictable" =>
        \A i \in DOMAIN ret.ea : maps[ret.ea[i].locked] = {}

\* Evictable returned a candidate while another entry was pinned
C3_Witness ==
    /\ ret.op = "Evictable"
    /\ ~ret.panic
    /\ ret.ea # << >>
    /\ \E i \in DOMAIN cache : maps[cache[i].locked] # {}

C5_NotFoundOnAbsent ==
    [][ ret'.op \in { "Mark", "Lock", "Locked" } =>
          /\ ret'.err <=> ret'.id \notin IdSet(cache)
          /\ ret'.err => (cache' = cache /\ maps' = maps) ]_vars

\* a Lock of an identity that is not there has returned NotFound while the
\* cache holds a pinned entry
C5_Witness ==
    /\ ret.op = "Lock"
    /\ ret.err
    /\ \E i \in DOMAIN cache : maps[cache[i].locked] # {}

\* C6: Remove of a descriptor whose identity is not in the cache returns
\* NotFound and leaves the entries, their order, use counts, times of last
\* use and pin-sets unchanged.
C6_RemoveAbsentNoChange ==
    [][ (ret'.op = "Remove" /\ ret'.id \notin IdSet(cache)) =>
          /\ ret'.err
          /\ cache' = cache
          /\ maps' = maps ]_vars

\* a Remove returned NotFound on a cache that holds a pinned entry
C6_Witness ==
    /\ ret.op = "Remove"
    /\ ret.err
    /\ \E i \in DOMAIN cache : maps[cache[i].locked] # {}

\* C7: OverFilled() returns true exactly when the sum of the sizes of the
\* entries is greater than the maxSize given to NewCache.
C7_OverFilledIffSumExceedsLimit ==
    ret.op = "OverFilled" => (ret.b <=> SumSizes(cache) > limit)

\* C8: the capacity field of the cache is the value given to NewCache, in
\* every state.
C8_CapacityPersisted == maxSize = limit

\* C9: the sequence Evictable() returns is ascending by score at the instant
\* it returns, and entries of equal score come in an order that does not
\* depend on the order of the backing slice: the same entries held in the
\* reverse order give the same sequence.
C9_EvictableSortedDeterministic ==
    (ret.op = "Evictable" /\ ~ret.panic) =>
        /\ \A i \in 1 .. Len(ret.ea) - 1 :
              Score(ret.ea[i], now) <= Score(ret.ea[i + 1], now)
        /\ \A o \in evictable(Reverse(cache), maps, now) :
              (~o.panic /\ o.t = now) => o.ea = ret.ea

\* C10: Evictable() returns normally in every state, entries that were
\* never marked included.
C10_EvictableNeverFails == ret.op = "Evictable" => ~ret.panic

\* C11: Unlock(id, t) never reports an error; when id has no entry or t is
\* not in the pin-set of its entry it changes nothing; when t is in the
\* pin-set it takes out t and only t, every other token and every other
\* entry staying as they are.
C11_UnlockPermissive ==
    [][ ret'.op = "Unlock" =>
          /\ ~ret'.err
          /\ ~ret'.panic
          /\ cache' = cache
          /\ IF ret'.id \in IdSet(cache)
                /\ ret'.tok \in PinTokens(cache, maps, ret'.id)
             THEN /\ PinTokens(cache', maps', ret'.id)
                       = PinTokens(cache, maps, ret'.id) \ { ret'.tok }
                  /\ \A r \in MapRefs \ { EntryOf(cache, ret'.id).locked } :
                        maps'[r] = maps[r]
             ELSE maps' = maps ]_vars

\* C15: Remove(d) of an entry that is there returns no error and takes the
\* entry out whatever its pin-set, also when the pin-set is not empty and
\* Locked(id) is true just before the call.
C15_RemoveIgnoresPins ==
    [][ (ret'.op = "Remove" /\ ret'.id \in IdSet(cache)) =>
          /\ ~ret'.err
          /\ ret'.id \notin IdSet(cache')
          /\ Len(cache') = Len(cache) - 1 ]_vars

\* a Remove has just taken out, without error, an entry that was pinned
C15_Witness ==
    /\ ret.op = "Remove"
    /\ ~ret.err
    /\ gone[ret.id] # {}
    /\ ret.id \notin IdSet(cache)

\* C20: an identity that was removed while pinned and is added again gets a
\* fresh entry: uses 0, empty pin-set, Locked(id) false, and Evictable()
\* returns with the entry among its candidates; an Unlock with a token that
\* was pinned on the removed entry leaves the new entry's pin-set as it is.
C20_ReAddIsFresh ==
    [][ /\ (ret'.op = "Add" /\ ret'.id \notin IdSet(cache) /\ gone[ret'.id] # {}) =>
              /\ EntryOf(cache', ret'.id).uses = 0
              /\ PinSet(cache', maps', ret'.id) = {}
              /\ ~locked(cache', maps', ret'.id).val
              /\ \A o \in evictable(cache', maps', now') :
                    /\ ~o.panic
                    /\ \E i \in DOMAIN o.ea : o.ea[i].image.ID = ret'.id
        /\ (/\ ret'.op = "Unlock"
            /\ ret'.id \in IdSet(cache)
            /\ ret'.tok \in gone[ret'.id] \ PinTokens(cache, maps, ret'.id)) =>
              PinSet(cache', maps', ret'.id) = PinSet(cache, maps, ret'.id) ]_vars

\* C16: Evictable() leaves the cache as it is, and the sequence it returned
\* is a copy: the next Add, Mark, Lock, Unlock or Remove does not alter the
\* pin state of the entries in the returned sequence.
C16_EvictableIsSnapshot ==
    [][ /\ ret'.op = "Evictable" => (cache' = cache /\ maps' = maps)
        /\ (/\ ret.op = "Evictable"
            /\ ret'.op \in { "Add", "Mark", "Lock", "Unlock", "Remove" }) =>
              \A i \in DOMAIN ret.ea :
                 maps'[ret.ea[i].locked] = maps[ret.ea[i].locked] ]_vars

\* C17: whenever Evictable() returns, the identities it returns are exactly
\* the identities of the cache whose pin-set is empty, each once, and the
\* entries returned are the entries of the cache.
C17_EvictableIffUnpinned ==
    (ret.op = "Evictable" /\ ~ret.panic) =>
        /\ { ret.ea[i].image.ID : i \in DOMAIN ret.ea }
              = { ID \in IdSet(cache) : PinSet(cache, maps, ID) = {} }
        /\ \A i, j \in DOMAIN ret.ea :
              ret.ea[i].image.ID = ret.ea[j].image.ID => i = j
        /\ \A i \in DOMAIN ret.ea : ret.ea[i] = EntryOf(cache, ret.ea[i].image.ID)

\* two entries, exactly one of them pinned: Evictable() returned exactly the
\* unpinned one
C17_Witness ==
    /\ ret.op = "Evictable"
    /\ ~ret.panic
    /\ Len(cache) = 2
    /\ Cardinality({ ID \in IdSet(cache) : PinSet(cache, maps, ID) # {} }) = 1
    /\ Len(ret.ea) = 1
    /\ PinSet(cache, maps, ret.ea[1].image.ID) = {}

\* C18: an entry is made with a use count of 0; each call makes the use
\* count of an entry that stays exactly one more if it is a successful
\* Mark(id) or an Add of that identity, and leaves it as it is otherwise, so
\* the count never goes down and is the number of those calls since the
\* entry was made; Contains, Len, Lock, Unlock, Locked, Evictable and
\* OverFilled leave every use count and time of last use as they are.
C18_UseCountAccounting ==
    [][ /\ \A ID \in IdSet(cache') \ IdSet(cache) :
              ret'.op = "Add" /\ ret'.id = ID /\ EntryOf(cache', ID).uses = 0
        /\ \A ID \in IdSet(cache') \cap IdSet(cache) :
              EntryOf(cache', ID).uses =
                 EntryOf(cache, ID).uses +
                    (IF /\ ret'.id = ID
                        /\ \/ ret'.op = "Mark" /\ ~ret'.err
                           \/ ret'.op = "Add"
                     THEN 1 ELSE 0)
        /\ ret'.op \in { "Contains", "Len", "Lock", "Unlock", "Locked",
                         "Evictable", "OverFilled" } => cache' = cache ]_vars

\* Add(a); Mark(a); Mark(a): the second Mark has returned, the use count is
\* 2 and Len() is 1
C18_Witness ==
    /\ ret.op = "Mark"
    /\ ~ret.err
    /\ Len(cache) = 1
    /\ contains(cache, [ID |-> ret.id])
    /\ EntryOf(cache, ret.id).uses = 2

\* C19: a successful Remove(d), wherever in the slice the entry is, leaves
\* Contains(d) false and Len() one less, and every other entry is still
\* there with its identity, use count, time of last use and pin-set as they
\* were.
C19_RemoveExactlyOne ==
    [][ (ret'.op = "Remove" /\ ~ret'.err) =>
          /\ ~contains(cache', [ID |-> ret'.id])
          /\ Len(cache') = Len(cache) - 1
          /\ \A ID \in IdSet(cache) \ { ret'.id } :
                /\ Cardinality(Matches(cache', ID)) = 1
                /\ EntryOf(cache', ID) = EntryOf(cache, ID)
                /\ PinSet(cache', maps', ID) = PinSet(cache, maps, ID) ]_vars

\* a Remove has taken the middle entry out of a slice of three, the last
\* entry, which is pinned or has been used, having moved into its place
C19_Witness ==
    /\ ret.op = "Remove"
    /\ ~ret.err
    /\ at = 2
    /\ Len(cache) = 2
    /\ \/ PinSet(cache, maps, cache[2].image.ID) # {}
       \/ cache[2].uses > 0

\* C12: every public method, TotalSize among them, holds the mutex while it
\* is in its body, so that at most one caller is inside a method at a time.
C12_AllEntryPointsExclusive ==
    \A p \in Callers : pc[p] \in { "body", "add2", "unlock" } => mu = p

C14_IdentityUnique ==
    \A i, j \in DOMAIN cache : cache[i].image.ID = cache[j].image.ID => i = j

\* two callers are adding the same identity: one has appended the entry and
\* still holds the mutex, the other waits for it
C14_Witness ==
    \E p, q \in Callers :
       /\ call[p].op = "Add" /\ call[q].op = "Add"
       /\ call[p].value = call[q].value
       /\ pc[p] = "unlock" /\ ~call[p].found
       /\ pc[q] = "lock"
       /\ Cardinality(Matches(cache, call[p].value.ID)) = 1

====
